---- MODULE Spec2Model ----
(***************************************************************************)
(* Model of src/upload/form/project_assets.rs: the module-type matchers    *)
(* (ModuleGlobs::build_type_matchers), the manifest builder                *)
(* (ModuleGlobs::create_module_manifest, ModuleGlobs::find_modules) and    *)
(* the two binding aggregators (ServiceWorkerAssets, ModulesAssets).       *)
(*                                                                         *)
(* Strings are sequences of one-character strings, so that glob matching   *)
(* and the construction of a module name are computed, not assumed.  A     *)
(* path is the sequence of its normal components below the root directory  *)
(* "/" (the form in which the directory walk yields paths on Unix).        *)
(***************************************************************************)
EXTENDS Naturals, Sequences, FiniteSets, TLC

\* ------------------------------------------------------------------ bounds
\* Longest candidate sequence handed to create_module_manifest, and the
\* largest directory tree walked by find_modules.
MaxPaths == 3

\* Most resource descriptors, of all categories together, one aggregator owns.
MaxRes == 5

\* ------------------------------------------------------- generic helpers
Range(s) == {s[k] : k \in 1..Len(s)}

SeqsUpTo(S, n) == UNION {[1..k -> S] : k \in 0..n}

RECURSIVE SetToSeqs(_)
\* every enumeration order of a finite set
SetToSeqs(S) ==
    IF S = {} THEN {<<>>}
    ELSE UNION {{<<x>> \o t : t \in SetToSeqs(S \ {x})} : x \in S}

\* every reordering of a sequence
Perms(s) == {[k \in 1..Len(s) |-> s[q[k]]] : q \in SetToSeqs(1..Len(s))}

\* --------------------------------------------------------------- strings
StarMjs  == <<"*", ".", "m", "j", "s">>
StarJs   == <<"*", ".", "j", "s">>
StarCjs  == <<"*", ".", "c", "j", "s">>
StarTxt  == <<"*", ".", "t", "x", "t">>
StarBin  == <<"*", ".", "b", "i", "n">>
StarWasm == <<"*", ".", "w", "a", "s", "m">>
SharedJsGlob   == <<"s", "h", "a", "r", "e", "d", ".", "j", "s">>
SharedStarGlob == <<"s", "h", "a", "r", "e", "d", ".", "*">>
BadGlob  == <<"[">>

Worker == <<"w", "o", "r", "k", "e", "r">>
Dist   == <<"d", "i", "s", "t">>
Other  == <<"o", "t", "h", "e", "r">>
Foo    == <<"f", "o", "o">>
Bar    == <<"b", "a", "r">>
IndexJs  == <<"i", "n", "d", "e", "x", ".", "j", "s">>
IndexMjs == <<"i", "n", "d", "e", "x", ".", "m", "j", "s">>
BarJs    == <<"b", "a", "r", ".", "j", "s">>
BazCjs   == <<"b", "a", "z", ".", "c", "j", "s">>
WatTxt   == <<"w", "a", "t", ".", "t", "x", "t">>
WatBin   == <<"w", "a", "t", ".", "b", "i", "n">>
MainWasm == <<"m", "a", "i", "n", ".", "w", "a", "s", "m">>
SharedJs == <<"s", "h", "a", "r", "e", "d", ".", "j", "s">>

\* /worker/dist, the upload root of tests::test_module_parsing
UploadRoot == <<Worker, Dist>>

PFooBarIndexMjs == UploadRoot \o <<Foo, Bar, IndexMjs>>
PBarJs    == UploadRoot \o <<BarJs>>
PFooBazCjs == UploadRoot \o <<Foo, BazCjs>>
PWatTxt   == UploadRoot \o <<WatTxt>>
PWatBin   == UploadRoot \o <<WatBin>>
PMainWasm == UploadRoot \o <<MainWasm>>
PSharedJs == UploadRoot \o <<SharedJs>>
PFooDir   == UploadRoot \o <<Foo>>
\* /worker/other/bar.js: a file that is not under the upload root
POutsideJs == <<Worker, Other, BarJs>>

\* ------------------------------------------------ external crate `ignore`
\* globset syntax restricted to literals, "*" and "?"; a "[" that is never
\* closed is the parse error (globset::ErrorKind::UnclosedClass).
GlobParses(glob) ==
    \A a \in 1..Len(glob) :
        glob[a] = "[" => \E b \in (a + 1)..Len(glob) : glob[b] = "]"

RECURSIVE GlobMatch(_, _)
\* does the glob match the whole file name (a name holds no separator)
GlobMatch(glob, s) ==
    IF glob = <<>> THEN s = <<>>
    ELSE IF Head(glob) = "*"
         THEN GlobMatch(Tail(glob), s) \/ (s # <<>> /\ GlobMatch(glob, Tail(s)))
    ELSE IF Head(glob) = "?"
         THEN s # <<>> /\ GlobMatch(Tail(glob), Tail(s))
    ELSE s # <<>> /\ Head(s) = Head(glob) /\ GlobMatch(Tail(glob), Tail(s))

\* BTreeMap key order of the five type names
TypeNameOrder == <<"CommonJS", "CompiledWasm", "Data", "ESModule", "Text">>

\* TypesBuilder::new(): no definitions (add_defaults is not called), no selections
TypesBuilderNew == [types |-> <<>>, selections |-> <<>>]

\* builder.types is a map name -> globs, kept as a sequence of entries
\* [name, globs] with at most one entry per name
HasType(b, name) == \E k \in 1..Len(b.types) : b.types[k].name = name

\* TypesBuilder::add(name, glob)
TypesBuilderAdd(b, name, glob) ==
    IF HasType(b, name)
    THEN [b EXCEPT !.types =
            [k \in 1..Len(b.types) |->
                IF b.types[k].name = name
                THEN [name |-> name, globs |-> Append(b.types[k].globs, glob)]
                ELSE b.types[k]]]
    ELSE [b EXCEPT !.types = Append(b.types, [name |-> name, globs |-> <<glob>>])]

RECURSIVE TypesBuilderAddEach(_, _, _)
\* `for glob in list { builder.add(name, glob)?; }`
TypesBuilderAddEach(b, name, list) ==
    IF list = <<>> THEN b
    ELSE TypesBuilderAddEach(TypesBuilderAdd(b, name, Head(list)), name, Tail(list))

\* TypesBuilder::select("all"): one selection per defined type, in key order
TypesBuilderSelectAll(b) ==
    [b EXCEPT !.selections =
        b.selections \o SelectSeq(TypeNameOrder, LAMBDA n : HasType(b, n))]

TypeGlobs(b, name) ==
    LET k == CHOOSE k \in 1..Len(b.types) : b.types[k].name = name
    IN  b.types[k].globs

RECURSIVE SelectedGlobs(_, _)
\* the globs of the selected types, in selection order
SelectedGlobs(b, sels) ==
    IF sels = <<>> THEN <<>>
    ELSE TypeGlobs(b, Head(sels)) \o SelectedGlobs(b, Tail(sels))

\* TypesBuilder::build(): parses every selected glob; the first one that does
\* not parse is the error
TypesBuilderBuild(b) ==
    LET gs  == SelectedGlobs(b, b.selections)
        bad == {k \in 1..Len(gs) : ~GlobParses(gs[k])}
    IN  IF bad # {}
        THEN [ok |-> FALSE,
              glob |-> gs[CHOOSE k \in bad : \A m \in bad : k <= m],
              types |-> [globs |-> <<>>, has_selected |-> FALSE]]
        ELSE [ok |-> TRUE,
              glob |-> <<>>,
              types |-> [globs |-> gs, has_selected |-> b.selections # <<>>]]

\* Path::file_name() of a path given by its components
HasFileName(path) == path # <<>>
FileName(path) == path[Len(path)]

\* Types::matched(path, is_dir): "None", "Ignore" or "Whitelist"
TypesMatched(t, path, is_dir) ==
    IF is_dir \/ t.globs = <<>> THEN "None"
    ELSE IF ~HasFileName(path)
         THEN (IF t.has_selected THEN "Ignore" ELSE "None")
    ELSE IF \E k \in 1..Len(t.globs) : GlobMatch(t.globs[k], FileName(path))
         THEN "Whitelist"
    ELSE IF t.has_selected THEN "Ignore" ELSE "None"

\* `matcher.matched(path, false).is_whitelist()`
IsWhitelist(t, path) == TypesMatched(t, path, FALSE) = "Whitelist"

\* ------------------------------------------------------------ ModuleGlobs
ModuleTypes == <<"ESModule", "CommonJS", "CompiledWasm", "Text", "Data">>

\* Option<Vec<String>>
None == [is_some |-> FALSE, v |-> <<>>]
Some(list) == [is_some |-> TRUE, v |-> list]

\* state of the closure add_all_globs before the first add_globs!
AddAllGlobsStart ==
    [ok |-> TRUE, glob |-> <<>>, all_builder |-> TypesBuilderNew, matchers |-> <<>>]

\* a configured list extends the defaults instead of replacing them
AddGlobsExtend(st, field, module_type, default_globs) ==
    IF ~st.ok THEN st
    ELSE LET list    == IF field.is_some THEN default_globs \o field.v ELSE default_globs
             all     == TypesBuilderAddEach(st.all_builder, module_type, list)
             builder == TypesBuilderAddEach(TypesBuilderNew, module_type, list)
             built   == TypesBuilderBuild(TypesBuilderSelectAll(builder))
         IN  IF ~built.ok
             THEN [st EXCEPT !.ok = FALSE, !.glob = built.glob, !.all_builder = all]
             ELSE [st EXCEPT !.all_builder = all,
                             !.matchers = Append(st.matchers,
                                 [matcher |-> built.types, module_type |-> module_type])]

\* configured globs are registered in the per-type builder only
AddGlobsNoAll(st, field, module_type, default_globs) ==
    IF ~st.ok THEN st
    ELSE LET list    == IF field.is_some THEN field.v ELSE default_globs
             all     == IF field.is_some THEN st.all_builder
                        ELSE TypesBuilderAddEach(st.all_builder, module_type, list)
             builder == TypesBuilderAddEach(TypesBuilderNew, module_type, list)
             built   == TypesBuilderBuild(TypesBuilderSelectAll(builder))
         IN  IF ~built.ok
             THEN [st EXCEPT !.ok = FALSE, !.glob = built.glob, !.all_builder = all]
             ELSE [st EXCEPT !.all_builder = all,
                             !.matchers = Append(st.matchers,
                                 [matcher |-> built.types, module_type |-> module_type])]

\* add_globs!(name, module_type, default_globs), with `?` leaving the closure
AddGlobs(st, field, module_type, default_globs) ==
    IF ~st.ok THEN st
    ELSE LET list    == IF field.is_some THEN field.v ELSE default_globs
             all     == TypesBuilderAddEach(st.all_builder, module_type, list)
             builder == TypesBuilderAddEach(TypesBuilderNew, module_type, list)
             built   == TypesBuilderBuild(TypesBuilderSelectAll(builder))
         IN  IF ~built.ok
             THEN [st EXCEPT !.ok = FALSE, !.glob = built.glob, !.all_builder = all]
             ELSE [st EXCEPT !.all_builder = all,
                             !.matchers = Append(st.matchers,
                                 [matcher |-> built.types, module_type |-> module_type])]

\* the closure add_all_globs
AddAllGlobs(self) ==
    LET s1 == AddGlobs(AddAllGlobsStart, self.esm, "ESModule", <<StarMjs>>)
        s2 == AddGlobs(s1, self.cjs, "CommonJS", <<StarJs, StarCjs>>)
        s3 == AddGlobs(s2, self.compiled_wasm, "CompiledWasm", <<>>)
        s4 == AddGlobs(s3, self.text, "Text", <<StarTxt>>)
        s5 == AddGlobs(s4, self.data, "Data", <<StarBin>>)
    IN  IF s5.ok
        THEN [s5 EXCEPT !.all_builder = TypesBuilderSelectAll(s5.all_builder)]
        ELSE s5

NoTypes == [globs |-> <<>>, has_selected |-> FALSE]

\* ModuleGlobs::build_type_matchers: Ok((all_matcher, matchers)) or the
\* glob error naming the offending glob
BuildTypeMatchers(self) ==
    LET st == AddAllGlobs(self)
    IN  IF ~st.ok
        THEN [ok |-> FALSE, glob |-> st.glob, all_matcher |-> NoTypes, matchers |-> <<>>]
        ELSE LET all == TypesBuilderBuild(st.all_builder)
             IN  IF ~all.ok
                 THEN [ok |-> FALSE, glob |-> all.glob,
                       all_matcher |-> NoTypes, matchers |-> <<>>]
                 ELSE [ok |-> TRUE, glob |-> <<>>,
                       all_matcher |-> all.types, matchers |-> st.matchers]

\* ------------------------------------------------------------ input sets
\* Type Glob Configurations: every field either unset or one explicit list
EsmChoices  == {None, Some(<<>>)}
CjsChoices  == {None, Some(<<SharedJsGlob>>), Some(<<BadGlob>>)}
WasmChoices == {None, Some(<<StarWasm>>)}
TextChoices == {None, Some(<<SharedStarGlob, StarTxt>>)}
DataChoices == {None, Some(<<StarJs>>)}

Configs ==
    [esm : EsmChoices, cjs : CjsChoices, compiled_wasm : WasmChoices,
     text : TextChoices, data : DataChoices]

DefaultGlobs ==
    [esm |-> None, cjs |-> None, compiled_wasm |-> None, text |-> None, data |-> None]

\* candidate paths handed to create_module_manifest directly
CandidatePaths == {PBarJs, PMainWasm, PSharedJs, POutsideJs}

\* the five files of tests::test_module_parsing, in the test's order
TestFs == <<PFooBarIndexMjs, PBarJs, PFooBazCjs, PWatTxt, PWatBin>>

CandidateSeqs == SeqsUpTo(CandidatePaths, MaxPaths) \cup {TestFs}

\* directory entries below the upload root
FsEntries ==
    {[path |-> PBarJs, is_file |-> TRUE], [path |-> PMainWasm, is_file |-> TRUE],
     [path |-> PSharedJs, is_file |-> TRUE], [path |-> PFooDir, is_file |-> FALSE]}

Trees == {t \in SUBSET FsEntries : Cardinality(t) <= MaxPaths}

\* ----------------------------------------------------------------- paths
\* a path outside the base is passed on whole instead of being refused
StripPrefixLossy(path, base) ==
    IF Len(base) <= Len(path) /\ SubSeq(path, 1, Len(base)) = base
    THEN [ok |-> TRUE, rel |-> SubSeq(path, Len(base) + 1, Len(path))]
    ELSE [ok |-> TRUE, rel |-> path]

\* Path::strip_prefix(base)
StripPrefix(path, base) ==
    IF Len(base) <= Len(path) /\ SubSeq(path, 1, Len(base)) = base
    THEN [ok |-> TRUE, rel |-> SubSeq(path, Len(base) + 1, Len(path))]
    ELSE [ok |-> FALSE, rel |-> <<>>]

RECURSIVE ToSlash(_)
\* PathExt::to_slash_lossy: the components joined by "/"
ToSlash(rel) ==
    IF rel = <<>> THEN <<>>
    ELSE IF Len(rel) = 1 THEN Head(rel)
    ELSE Head(rel) \o <<"/">> \o ToSlash(Tail(rel))

\* the name taken from the file name alone
ModuleNameFlat(rel) ==
    <<".", "/">> \o (IF rel = <<>> THEN <<>> ELSE rel[Len(rel)])

\* format!("./{}", ...)
ModuleName(rel) == <<".", "/">> \o ToSlash(rel)


\* ----------------------------------------------------------------- state
VARIABLES
    globs,       \* self: the ModuleGlobs configuration
    upload_dir,  \* the upload root
    pc,          \* "start", "built", "path" (head of `for path in paths`),
                 \* "matcher" (head of `for ... in matchers`), "done"
    entry,       \* how create_module_manifest was entered: "none",
                 \* "find_modules" or "direct" (as tests::test_module_parsing)
    built,       \* the value of build_type_matchers
    fs,          \* the directory tree walked by find_modules
    paths,       \* the candidate sequence
    idx,         \* number of candidates taken from `paths`
    mi,          \* index of the matcher evaluated next
    name,        \* canonical name of the current candidate
    modules,     \* HashMap<String, Module>, a function on its keys
    origin,      \* history: key -> <<idx, mi>> of the insertion
    result,      \* what the caller receives
    prev,        \* outcome of an earlier run over the same candidates
    sw,          \* a ServiceWorkerAssets
    ma,          \* a ModulesAssets
    bound        \* the value of the last bindings() call and its receiver

vars == <<globs, upload_dir, pc, entry, built, fs, paths, idx, mi, name,
          modules, origin, result, prev, sw, ma, bound>>

NoResult == [tag |-> "none", modules |-> <<>>, kind |-> "", subject |-> <<>>]
Ok(list) == [tag |-> "ok", modules |-> list, kind |-> "", subject |-> <<>>]
Err(kind, subject) == [tag |-> "err", modules |-> <<>>, kind |-> kind, subject |-> subject]

NotBuilt == [ok |-> FALSE, glob |-> <<>>, all_matcher |-> NoTypes, matchers |-> <<>>]
NoPrev == [tag |-> "none", set |-> {}]

\* aggregators owning no resource descriptor
EmptyServiceWorkerAssets ==
    [script_name |-> "index", script_path |-> <<Worker, IndexJs>>,
     wasm_modules |-> <<>>, kv_namespaces |-> <<>>, durable_object_classes |-> <<>>,
     text_blobs |-> <<>>, plain_texts |-> <<>>]

EmptyModulesAssets ==
    [main_module |-> "index", modules |-> <<>>, kv_namespaces |-> <<>>,
     durable_object_classes |-> <<>>, migration |-> "None", plain_texts |-> <<>>]

NoBindings == [of |-> "none", list |-> <<>>]

Init ==
    /\ globs \in Configs
    /\ upload_dir = UploadRoot
    /\ pc = "start"
    /\ entry = "none"
    /\ built = NotBuilt
    /\ fs = {}
    /\ paths = <<>>
    /\ idx = 0
    /\ mi = 0
    /\ name = <<>>
    /\ modules = <<>>
    /\ origin = <<>>
    /\ result = NoResult
    /\ prev = NoPrev
    /\ sw = EmptyServiceWorkerAssets
    /\ ma = EmptyModulesAssets
    /\ bound = NoBindings

\* `self.build_type_matchers()?`
BuildMatchers ==
    /\ pc = "start"
    /\ built' = BuildTypeMatchers(globs)
    /\ IF built'.ok
       THEN pc' = "built" /\ result' = result
       ELSE pc' = "done" /\ result' = Err("glob", built'.glob)
    /\ UNCHANGED <<globs, upload_dir, entry, fs, paths, idx, mi, name, modules,
                   origin, prev, sw, ma, bound>>

\* the entries the walk yields: directories always, a file unless the types
\* matcher ignores it
WalkEntries(tree, all_matcher) ==
    {e \in tree : TypesMatched(all_matcher, e.path, ~e.is_file) # "Ignore"}

\* `.filter(|e| e.path().is_file()).map(|e| e.path())`
WalkCandidates(tree, all_matcher) ==
    {e.path : e \in {x \in WalkEntries(tree, all_matcher) : x.is_file}}

\* find_modules: the walk below upload_dir, in the order the file system
\* yields the entries, then create_module_manifest on the regular files
Walk ==
    /\ pc = "built"
    /\ \E tree \in Trees :
         \E order \in SetToSeqs(WalkCandidates(tree, built.all_matcher)) :
            /\ fs' = tree
            /\ paths' = order
    /\ entry' = "find_modules"
    /\ pc' = "path"
    /\ UNCHANGED <<globs, upload_dir, built, idx, mi, name, modules, origin,
                   result, prev, sw, ma, bound>>

\* find_modules: `.collect::<Result<Vec<_>, _>>()?` on an entry the walk
\* could not read
WalkError ==
    /\ pc = "built"
    /\ \E tree \in Trees : tree # {} /\ fs' = tree
    /\ entry' = "find_modules"
    /\ pc' = "done"
    /\ result' = Err("walk", <<>>)
    /\ UNCHANGED <<globs, upload_dir, built, paths, idx, mi, name, modules,
                   origin, prev, sw, ma, bound>>

\* create_module_manifest called on a sequence of the caller's choosing
CallDirect ==
    /\ pc = "built"
    /\ \E ps \in CandidateSeqs : paths' = ps
    /\ entry' = "direct"
    /\ pc' = "path"
    /\ UNCHANGED <<globs, upload_dir, built, fs, idx, mi, name, modules, origin,
                   result, prev, sw, ma, bound>>

\* a candidate outside the root is skipped instead of ending the run
NextPathSkip ==
    /\ pc = "path"
    /\ idx < Len(paths)
    /\ idx' = idx + 1
    /\ LET sp == StripPrefix(paths[idx + 1], upload_dir)
       IN  IF sp.ok
           THEN /\ name' = ModuleName(sp.rel)
                /\ mi' = 1
                /\ pc' = "matcher"
           ELSE /\ pc' = "path"
                /\ UNCHANGED <<name, mi>>
    /\ UNCHANGED <<globs, upload_dir, entry, built, fs, paths, modules, origin,
                   result, prev, sw, ma, bound>>

\* a candidate outside the root ends the loop as if the sequence ended there
NextPathBreak ==
    /\ pc = "path"
    /\ idx < Len(paths)
    /\ LET sp == StripPrefix(paths[idx + 1], upload_dir)
       IN  IF sp.ok
           THEN /\ idx' = idx + 1
                /\ name' = ModuleName(sp.rel)
                /\ mi' = 1
                /\ pc' = "matcher"
           ELSE /\ idx' = Len(paths)
                /\ pc' = "path"
                /\ UNCHANGED <<name, mi>>
    /\ UNCHANGED <<globs, upload_dir, entry, built, fs, paths, modules, origin,
                   result, prev, sw, ma, bound>>

\* `for path in paths { let name = format!("./{}", path.strip_prefix(..)?); ..`
NextPath ==
    /\ pc = "path"
    /\ idx < Len(paths)
    /\ idx' = idx + 1
    /\ LET sp == StripPrefix(paths[idx + 1], upload_dir)
       IN  IF sp.ok
           THEN /\ name' = ModuleName(sp.rel)
                /\ mi' = 1
                /\ pc' = "matcher"
                /\ result' = result
           ELSE /\ pc' = "done"
                /\ result' = Err("path", <<>>)
                /\ UNCHANGED <<name, mi>>
    /\ UNCHANGED <<globs, upload_dir, entry, built, fs, paths, modules, origin, prev, sw, ma, bound>>

\* HashMap::insert(name, Module {..})
Insert(map, key, value) ==
    [k \in DOMAIN map \cup {key} |-> IF k = key THEN value ELSE map[k]]

\* no contains_key test: a later matcher overwrites the entry
MatchStepOverwrite ==
    /\ pc = "matcher"
    /\ mi <= Len(built.matchers)
    /\ LET path == paths[idx]
           m    == built.matchers[mi]
       IN  IF IsWhitelist(m.matcher, path)
           THEN /\ modules' = Insert(modules, name,
                       [name |-> name, path |-> path, module_type |-> m.module_type])
                /\ origin' = Insert(origin, name, <<idx, mi>>)
           ELSE UNCHANGED <<modules, origin>>
    /\ mi' = mi + 1
    /\ pc' = IF mi = Len(built.matchers) THEN "path" ELSE "matcher"
    /\ UNCHANGED <<globs, upload_dir, entry, built, fs, paths, idx, name, result,
                   prev, sw, ma, bound>>

\* an entry already present is kept and the loop goes on
MatchStepFirstWins ==
    /\ pc = "matcher"
    /\ mi <= Len(built.matchers)
    /\ LET path == paths[idx]
           m    == built.matchers[mi]
       IN  IF IsWhitelist(m.matcher, path) /\ name \notin DOMAIN modules
           THEN /\ modules' = Insert(modules, name,
                       [name |-> name, path |-> path, module_type |-> m.module_type])
                /\ origin' = Insert(origin, name, <<idx, mi>>)
           ELSE UNCHANGED <<modules, origin>>
    /\ mi' = mi + 1
    /\ pc' = IF mi = Len(built.matchers) THEN "path" ELSE "matcher"
    /\ UNCHANGED <<globs, upload_dir, entry, built, fs, paths, idx, name, result,
                   prev, sw, ma, bound>>

\* one iteration of `for ModuleMatcher { matcher, module_type } in matchers`
MatchStep ==
    /\ pc = "matcher"
    /\ mi <= Len(built.matchers)
    /\ LET path == paths[idx]
           m    == built.matchers[mi]
       IN  IF IsWhitelist(m.matcher, path)
           THEN IF name \in DOMAIN modules
                THEN /\ pc' = "done"
                     /\ result' = Err("conflict", path)
                     /\ UNCHANGED <<modules, origin, mi>>
                ELSE /\ modules' = Insert(modules, name,
                            [name |-> name, path |-> path, module_type |-> m.module_type])
                     /\ origin' = Insert(origin, name, <<idx, mi>>)
                     /\ mi' = mi + 1
                     /\ pc' = IF mi = Len(built.matchers) THEN "path" ELSE "matcher"
                     /\ result' = result
           ELSE /\ mi' = mi + 1
                /\ pc' = IF mi = Len(built.matchers) THEN "path" ELSE "matcher"
                /\ UNCHANGED <<modules, origin, result>>
    /\ UNCHANGED <<globs, upload_dir, entry, built, fs, paths, idx, name, prev, sw, ma, bound>>

\* `Ok(modules.drain().map(|(_, m)| m).collect())`: the values, in the
\* unspecified order in which the map yields them
Finish ==
    /\ pc = "path"
    /\ idx = Len(paths)
    /\ \E keys \in SetToSeqs(DOMAIN modules) :
         result' = Ok([k \in 1..Len(keys) |-> modules[keys[k]]])
    /\ pc' = "done"
    /\ UNCHANGED <<globs, upload_dir, entry, built, fs, paths, idx, mi, name,
                   modules, origin, prev, sw, ma, bound>>

Next ==
    \/ BuildMatchers
    \/ Walk
    \/ WalkError
    \/ CallDirect
    \/ NextPath
    \/ MatchStep
    \/ Finish

Spec == Init /\ [][Next]_vars


\* ------------------------------------------------- vocabulary of the claims
\* every path of the input sets
AllPaths == CandidatePaths \cup Range(TestFs) \cup {e.path : e \in FsEntries}

\* the per-type matchers that whitelist a path
Matching(path) ==
    {k \in 1..Len(built.matchers) : IsWhitelist(built.matchers[k].matcher, path)}

\* the path lies under the upload root
UnderRoot(path) ==
    \E n \in 0..Len(path) :
        /\ n = Len(upload_dir)
        /\ \A k \in 1..n : path[k] = upload_dir[k]

\* create_module_manifest has been entered and the walk before it succeeded
Entered == entry # "none" /\ result.kind # "walk"

Finished == Entered /\ pc = "done"

\* candidate k cannot be classified: it is outside the root, or several
\* matchers whitelist it, or an earlier candidate of the same path is
\* already classified
Fails(k) ==
    \/ ~UnderRoot(paths[k])
    \/ Cardinality(Matching(paths[k])) >= 2
    \/ /\ Matching(paths[k]) # {}
       /\ \E j \in 1..(k - 1) : paths[j] = paths[k]

Failing == {k \in 1..Len(paths) : Fails(k)}

FirstFailing == IF Failing = {} THEN 0 ELSE CHOOSE k \in Failing : \A m \in Failing : k <= m

\* the candidates whitelisted by exactly one per-type matcher
SinglyMatched == {f \in Range(paths) : Cardinality(Matching(f)) = 1}

TypeOf(f) == built.matchers[CHOOSE k \in Matching(f) : TRUE].module_type

Str_FooBarIndexMjs ==
    <<".", "/", "f", "o", "o", "/", "b", "a", "r", "/",
      "i", "n", "d", "e", "x", ".", "m", "j", "s">>
Str_BarJs == <<".", "/", "b", "a", "r", ".", "j", "s">>
Str_FooBazCjs == <<".", "/", "f", "o", "o", "/", "b", "a", "z", ".", "c", "j", "s">>
Str_WatTxt == <<".", "/", "w", "a", "t", ".", "t", "x", "t">>
Str_WatBin == <<".", "/", "w", "a", "t", ".", "b", "i", "n">>

\* the manifest tests::test_module_parsing expects
TestManifest ==
    {[name |-> Str_FooBarIndexMjs, path |-> PFooBarIndexMjs, module_type |-> "ESModule"],
     [name |-> Str_BarJs, path |-> PBarJs, module_type |-> "CommonJS"],
     [name |-> Str_FooBazCjs, path |-> PFooBazCjs, module_type |-> "CommonJS"],
     [name |-> Str_WatTxt, path |-> PWatTxt, module_type |-> "Text"],
     [name |-> Str_WatBin, path |-> PWatBin, module_type |-> "Data"]}

\* "./" followed by the components below the root, joined by "/"
RECURSIVE Joined(_, _)
Joined(path, k) ==
    IF k > Len(path) THEN <<>>
    ELSE IF k = Len(path) THEN path[k]
    ELSE path[k] \o <<"/">> \o Joined(path, k + 1)

ExpectedName(f) == <<".", "/">> \o Joined(f, Len(upload_dir) + 1)

\* C1: a successful create_module_manifest returns exactly one Module
\* {"./" + relative path, path, type} per candidate whitelisted by exactly
\* one per-type matcher, and nothing else; the default configuration on the
\* five files of the test gives the test's manifest.
C1_ManifestExact ==
    (Finished /\ result.tag = "ok") =>
        /\ Range(result.modules) =
             {[name |-> ExpectedName(f), path |-> f, module_type |-> TypeOf(f)] :
                 f \in SinglyMatched}
        /\ Len(result.modules) = Cardinality(SinglyMatched)
        /\ \A f \in Range(paths) :
             Matching(f) = {} => \A k \in 1..Len(result.modules) : result.modules[k].path # f
        /\ (globs = DefaultGlobs /\ paths = TestFs) => Range(result.modules) = TestManifest

C1_Witness ==
    /\ Finished
    /\ result.tag = "ok"
    /\ globs = DefaultGlobs
    /\ paths = TestFs
    /\ Len(result.modules) = 5

\* C2 as stated: every candidate whitelisted by two or more per-type
\* matchers makes the run fail with the conflict error naming that candidate.
C2_Original ==
    Finished =>
        \A k \in 1..Len(paths) :
            Cardinality(Matching(paths[k])) >= 2 => result = Err("conflict", paths[k])

\* C2 amended: a candidate whitelisted by two or more per-type matchers makes
\* the run fail; the error is the conflict error naming that candidate when it
\* is under the upload root and no earlier candidate of the sequence fails.
C2_ConflictAtFirstFailure ==
    Finished =>
        \A k \in 1..Len(paths) :
            Cardinality(Matching(paths[k])) >= 2 =>
                /\ result.tag = "err"
                /\ result.kind \in {"conflict", "path"}
                /\ (UnderRoot(paths[k]) /\ FirstFailing = k)
                      => result = Err("conflict", paths[k])

C2_Witness ==
    /\ Finished
    /\ globs.cjs = Some(<<SharedJsGlob>>)
    /\ globs.text = Some(<<SharedStarGlob, StarTxt>>)
    /\ globs.data = None
    /\ Matching(PSharedJs) = {2, 4}
    /\ result = Err("conflict", PSharedJs)

\* C3: in the name-keyed map, at every step, each key is the name of its
\* Module and no two Modules share a name; in the returned manifest no two
\* Modules share a name and each Module's type is that of the one and only
\* per-type matcher whitelisting its file.
C3_ManifestInvariant ==
    /\ \A k \in DOMAIN modules : modules[k].name = k
    /\ \A a, b \in DOMAIN modules : modules[a].name = modules[b].name => a = b
    /\ (Finished /\ result.tag = "ok") =>
          /\ \A a, b \in 1..Len(result.modules) :
                result.modules[a].name = result.modules[b].name => a = b
          /\ \A a \in 1..Len(result.modules) :
                /\ Cardinality(Matching(result.modules[a].path)) = 1
                /\ result.modules[a].module_type = TypeOf(result.modules[a].path)
                /\ result.modules[a].name = ExpectedName(result.modules[a].path)

C3_Witness ==
    /\ Finished
    /\ result.tag = "ok"
    /\ Len(result.modules) >= 2
    /\ \E f \in Range(paths) : Matching(f) = {}

\* C5: a conflict or path error ends the run at the first candidate that
\* fails: the caller receives the error and no Module, candidates after it
\* are never taken, and a run with a failing candidate never succeeds.
C5_AllOrNothing ==
    Entered =>
        /\ result.tag = "err" =>
              /\ pc = "done"
              /\ result.kind \in {"conflict", "path"}
              /\ result.modules = <<>>
              /\ idx = FirstFailing
        /\ pc = "done" => (result.tag = "err" <=> Failing # {})
        /\ idx <= Len(paths)
        /\ \A k \in DOMAIN origin : origin[k][1] <= idx

C5_Witness ==
    /\ Finished
    /\ result.tag = "err"
    /\ \E k \in DOMAIN origin : origin[k][1] < idx
    /\ idx < Len(paths)

\* C6: a candidate that is reached and is not under the upload root ends the
\* run with the path error, whatever number of per-type matchers whitelist it.
C6_PathError ==
    (Entered /\ idx >= 1 /\ ~UnderRoot(paths[idx])) =>
        /\ pc = "done"
        /\ result = Err("path", <<>>)
        /\ \A k \in DOMAIN modules : modules[k].path # paths[idx]

C6_Witness ==
    /\ Finished
    /\ idx >= 1
    /\ ~UnderRoot(paths[idx])
    /\ Cardinality(Matching(paths[idx])) >= 2
    /\ result.kind = "path"


\* the glob list the configuration gives a type: the configured list when
\* present, the type's default list otherwise
ConfiguredGlobs(k) ==
    LET field == CASE k = 1 -> globs.esm
                   [] k = 2 -> globs.cjs
                   [] k = 3 -> globs.compiled_wasm
                   [] k = 4 -> globs.text
                   [] OTHER -> globs.data
        default == CASE k = 1 -> <<StarMjs>>
                     [] k = 2 -> <<StarJs, StarCjs>>
                     [] k = 3 -> <<>>
                     [] k = 4 -> <<StarTxt>>
                     [] OTHER -> <<StarBin>>
    IN  IF field.is_some THEN field.v ELSE default

Str_MainWasm == <<".", "/", "m", "a", "i", "n", ".", "w", "a", "s", "m">>

\* C4: a successful build_type_matchers returns the five per-type matchers
\* in the order ESModule, CommonJS, CompiledWasm, Text, Data; the matcher of
\* a type whitelists a file iff a glob of the configured list (or, when the
\* list is unset, of the default list) matches it; main.wasm is CompiledWasm
\* under compiled_wasm = ["*.wasm"] and absent under the default.
C4_TypeMatchers ==
    /\ pc = "built" =>
          /\ built.ok
          /\ Len(built.matchers) = 5
          /\ \A k \in 1..Len(built.matchers) :
                /\ built.matchers[k].module_type = ModuleTypes[k]
                /\ \A f \in AllPaths :
                      IsWhitelist(built.matchers[k].matcher, f)
                        <=> \E g \in Range(ConfiguredGlobs(k)) : GlobMatch(g, FileName(f))
    /\ (Finished /\ result.tag = "ok" /\ PMainWasm \in Range(paths)) =>
          /\ globs.compiled_wasm = Some(<<StarWasm>>) =>
                [name |-> Str_MainWasm, path |-> PMainWasm,
                 module_type |-> "CompiledWasm"] \in Range(result.modules)
          /\ globs.compiled_wasm = None =>
                \A k \in 1..Len(result.modules) : result.modules[k].path # PMainWasm

C4_Witness ==
    /\ Finished
    /\ result.tag = "ok"
    /\ globs.compiled_wasm = Some(<<StarWasm>>)
    /\ globs.cjs = Some(<<SharedJsGlob>>)
    /\ globs.esm = Some(<<>>)
    /\ PMainWasm \in Range(paths)
    /\ PBarJs \in Range(paths)
    /\ Len(result.modules) = 1
    /\ result.modules[1].module_type = "CompiledWasm"

\* C9: the combined matcher whitelists a file iff one of the five per-type
\* matchers does; the walk of find_modules keeps every regular file that a
\* per-type matcher whitelists, and the manifest of find_modules holds
\* exactly the regular files of the tree whitelisted by one per-type matcher.
C9_CombinedMatcher ==
    /\ pc = "built" =>
          \A f \in AllPaths :
              IsWhitelist(built.all_matcher, f) <=> Matching(f) # {}
    /\ (entry = "find_modules" /\ Entered /\ pc = "path" /\ idx = 0) =>
          \A e \in fs : (e.is_file /\ Matching(e.path) # {}) => e.path \in Range(paths)
    /\ (entry = "find_modules" /\ Finished /\ result.tag = "ok") =>
          {result.modules[k].path : k \in 1..Len(result.modules)}
             = {e.path : e \in {x \in fs : x.is_file /\ Cardinality(Matching(x.path)) = 1}}

C9_Witness ==
    /\ entry = "find_modules"
    /\ Finished
    /\ result.tag = "ok"
    /\ Len(result.modules) = 2
    /\ \E e \in fs : e.is_file /\ e.path \notin Range(paths)
    /\ globs.compiled_wasm = Some(<<StarWasm>>)

\* C10 as stated: when the conflict error is raised, the entry found under
\* the candidate's name was inserted for that same candidate, and the
\* candidate is whitelisted by more than one per-type matcher.
C10_ConflictOnlyOnMultiMatch ==
    (Entered /\ result.kind = "conflict") =>
        /\ origin[name][1] = idx
        /\ Cardinality(Matching(paths[idx])) >= 2

\* ------------------------------------------------ two runs, same candidates
\* a second create_module_manifest with the same matchers and root over the
\* same candidates, enumerated in any order
Rerun ==
    /\ pc = "done"
    /\ Entered
    /\ prev = NoPrev
    /\ \E q \in Perms(paths) : paths' = q
    /\ prev' = [tag |-> result.tag, set |-> Range(result.modules)]
    /\ pc' = "path"
    /\ idx' = 0
    /\ mi' = 0
    /\ name' = <<>>
    /\ modules' = <<>>
    /\ origin' = <<>>
    /\ result' = NoResult
    /\ UNCHANGED <<globs, upload_dir, entry, built, fs, sw, ma, bound>>

NextRerun ==
    \/ Next
    \/ Rerun

SpecRerun == Init /\ [][NextRerun]_vars

\* C8: two runs over the same candidates, in any two orders, both fail or
\* both succeed, and two successful runs return the same set of Modules.
C8_OrderIndependent ==
    (Finished /\ prev.tag # "none") =>
        /\ result.tag = prev.tag
        /\ result.tag = "ok" => Range(result.modules) = prev.set

C8_Witness ==
    /\ Finished
    /\ prev.tag = "ok"
    /\ result.tag = "ok"
    /\ Cardinality(prev.set) >= 2
    /\ Len(paths) = 3
    /\ paths[1] # paths[2]


\* ------------------------------------------------------ binding aggregators
\* names of the resource descriptors a configuration may declare
DescriptorNames == {"A", "B"}

\* Binding projections of the five descriptor kinds: a Binding carries the
\* kind of resource and the descriptor it was produced from
WasmModuleBinding(wm) == [kind |-> "wasm_module", of |-> wm]
KvNamespaceBinding(kv) == [kind |-> "kv_namespace", of |-> kv]
DurableObjectsClassBinding(class) == [kind |-> "durable_object_namespace", of |-> class]
TextBlobBinding(blob) == [kind |-> "text_blob", of |-> blob]
PlainTextBinding(plain_text) == [kind |-> "plain_text", of |-> plain_text]

\* `for x in &self.<list> { bindings.push(x.binding()); }`, one loop per kind
PushWasmModules(bindings, list) ==
    bindings \o [k \in 1..Len(list) |-> WasmModuleBinding(list[k])]
PushKvNamespaces(bindings, list) ==
    bindings \o [k \in 1..Len(list) |-> KvNamespaceBinding(list[k])]
PushDurableObjectClasses(bindings, list) ==
    bindings \o [k \in 1..Len(list) |-> DurableObjectsClassBinding(list[k])]
PushTextBlobs(bindings, list) ==
    bindings \o [k \in 1..Len(list) |-> TextBlobBinding(list[k])]
PushPlainTexts(bindings, list) ==
    bindings \o [k \in 1..Len(list) |-> PlainTextBinding(list[k])]

\* durable-object classes are pushed before the KV namespaces
ServiceWorkerAssetsBindingsSwapped(self) ==
    LET b1 == PushWasmModules(<<>>, self.wasm_modules)
        b2 == PushDurableObjectClasses(b1, self.durable_object_classes)
        b3 == PushKvNamespaces(b2, self.kv_namespaces)
        b4 == PushTextBlobs(b3, self.text_blobs)
    IN  PushPlainTexts(b4, self.plain_texts)

\* ServiceWorkerAssets::bindings
ServiceWorkerAssetsBindings(self) ==
    LET b1 == PushWasmModules(<<>>, self.wasm_modules)
        b2 == PushKvNamespaces(b1, self.kv_namespaces)
        b3 == PushDurableObjectClasses(b2, self.durable_object_classes)
        b4 == PushTextBlobs(b3, self.text_blobs)
    IN  PushPlainTexts(b4, self.plain_texts)

\* ModulesAssets::bindings
ModulesAssetsBindings(self) ==
    LET b1 == PushKvNamespaces(<<>>, self.kv_namespaces)
        b2 == PushDurableObjectClasses(b1, self.durable_object_classes)
    IN  PushPlainTexts(b2, self.plain_texts)

RECURSIVE Distribute(_, _)
\* every way to fill n lists with at most `budget` descriptors in all
Distribute(n, budget) ==
    IF n = 0 THEN {<<>>}
    ELSE UNION {{<<l>> \o rest : rest \in Distribute(n - 1, budget - Len(l))} :
                    l \in SeqsUpTo(DescriptorNames, budget)}

ServiceWorkerAssetsSet ==
    {[script_name |-> "index", script_path |-> <<Worker, IndexJs>>,
      wasm_modules |-> d[1], kv_namespaces |-> d[2], durable_object_classes |-> d[3],
      text_blobs |-> d[4], plain_texts |-> d[5]] : d \in Distribute(5, MaxRes)}

TestModule == [name |-> Str_BarJs, path |-> PBarJs, module_type |-> "CommonJS"]

ModulesAssetsSet ==
    {[main_module |-> "index", modules |-> m, kv_namespaces |-> d[1],
      durable_object_classes |-> d[2], migration |-> mig, plain_texts |-> d[3]] :
        d \in Distribute(3, MaxRes), m \in {<<>>, <<TestModule>>},
        mig \in {"None", "Some"}}

\* the state after ServiceWorkerAssets::new or ModulesAssets::new
InitAssets ==
    /\ globs = DefaultGlobs
    /\ upload_dir = UploadRoot
    /\ pc = "done"
    /\ entry = "none"
    /\ built = NotBuilt
    /\ fs = {}
    /\ paths = <<>>
    /\ idx = 0
    /\ mi = 0
    /\ name = <<>>
    /\ modules = <<>>
    /\ origin = <<>>
    /\ result = NoResult
    /\ prev = NoPrev
    /\ \/ sw \in ServiceWorkerAssetsSet /\ ma = EmptyModulesAssets
       \/ sw = EmptyServiceWorkerAssets /\ ma \in ModulesAssetsSet
    /\ bound = NoBindings

\* a call of ServiceWorkerAssets::bindings(&self)
CallServiceWorkerBindings ==
    /\ bound' = [of |-> "sw", list |-> ServiceWorkerAssetsBindings(sw)]
    /\ UNCHANGED <<globs, upload_dir, pc, entry, built, fs, paths, idx, mi, name,
                   modules, origin, result, prev, sw, ma>>

\* a call of ModulesAssets::bindings(&self)
CallModulesBindings ==
    /\ bound' = [of |-> "ma", list |-> ModulesAssetsBindings(ma)]
    /\ UNCHANGED <<globs, upload_dir, pc, entry, built, fs, paths, idx, mi, name,
                   modules, origin, result, prev, sw, ma>>

NextAssets ==
    \/ CallServiceWorkerBindings
    \/ CallModulesBindings

SpecAssets == InitAssets /\ [][NextAssets]_vars

\* the list holds, category after category in the given order, the binding
\* of each descriptor of the category, in list order, and nothing else
RECURSIVE Grouped(_, _, _)
Grouped(list, from, groups) ==
    IF groups = <<>> THEN Len(list) = from
    ELSE LET g == Head(groups)
         IN  /\ Len(list) >= from + Len(g.items)
             /\ \A k \in 1..Len(g.items) :
                   list[from + k] = [kind |-> g.kind, of |-> g.items[k]]
             /\ Grouped(list, from + Len(g.items), Tail(groups))

\* C7: bindings() returns one binding per owned descriptor: wasm modules, KV
\* namespaces, durable-object classes, text blobs, plain texts for
\* ServiceWorkerAssets; KV namespaces, durable-object classes, plain texts
\* (nothing for modules or migration) for ModulesAssets; the call changes no
\* field of the aggregator, so a repeated call returns the same list.
C7_Bindings ==
    [][/\ sw' = sw
       /\ ma' = ma
       /\ bound'.of = "sw" =>
             Grouped(bound'.list, 0,
                <<[kind |-> "wasm_module", items |-> sw.wasm_modules],
                  [kind |-> "kv_namespace", items |-> sw.kv_namespaces],
                  [kind |-> "durable_object_namespace", items |-> sw.durable_object_classes],
                  [kind |-> "text_blob", items |-> sw.text_blobs],
                  [kind |-> "plain_text", items |-> sw.plain_texts]>>)
       /\ bound'.of = "ma" =>
             Grouped(bound'.list, 0,
                <<[kind |-> "kv_namespace", items |-> ma.kv_namespaces],
                  [kind |-> "durable_object_namespace", items |-> ma.durable_object_classes],
                  [kind |-> "plain_text", items |-> ma.plain_texts]>>)
       /\ (bound.of = bound'.of /\ bound.of # "none") => bound'.list = bound.list]_vars

C7_Witness ==
    /\ bound.of = "sw"
    /\ Len(bound.list) = 5
    /\ sw.wasm_modules # <<>>
    /\ sw.durable_object_classes # <<>>
    /\ sw.text_blobs # <<>>
    /\ Len(sw.kv_namespaces) = 2
    /\ sw.kv_namespaces[1] # sw.kv_namespaces[2]


====
